---- MODULE Spec2Model ----
(***************************************************************************)
(* Fleet / work-order application (PAPDfleetSharepoint).                   *)
(*                                                                         *)
(* The model has two layers:                                               *)
(*   - the backend tables (profiles, vehicles, vehicle_status_history,     *)
(*     work_orders) with the row-level policies of the SQL migration;      *)
(*   - the browser sessions: the state of the React components             *)
(*     (Vehicles page + VehicleModal + WorkOrderModal, WorkOrders page,    *)
(*     Settings page) and the position of every async handler between its  *)
(*     awaits.                                                             *)
(* Every await of a handler is one step, so that the writes of different   *)
(* sessions interleave exactly where the network calls of the code do.     *)
(***************************************************************************)
EXTENDS Integers, Sequences, FiniteSets, TLC

\* ------------------------------------------------------------------ bounds
MaxVehicles == 1
MaxHistory == 2
MaxWorkOrders == 2
MaxSettingsRows == 2
MaxDirectRows == 1

\* ------------------------------------------------------------ value domains
NULL == "null"

Principals == {"a1", "a2", "u1"}
\* A browser session is identified with the principal that signed in. Every
\* write handler of the application sits behind an isAdmin-gated control, so
\* the sessions that act are those of the two admins.
Sessions == {"a1", "a2"}
Pages == {"dashboard", "vehicles", "work-orders", "settings"}

Roles == {"admin", "user"}
VehicleStatuses == {"available", "assigned", "out_of_service"}
WorkOrderStatuses == {"pending", "in_progress", "completed", "cancelled"}

\* Inputs a user can type or pick in the forms ("" is the empty input). The
\* free-text notes of a vehicle and of its history rows and a work order's
\* description, priority, location and mileage are left out: no rule of the
\* code reads them. unit_number stands for the four descriptive columns of a
\* vehicle (unit number, make, model, year), which the code always writes
\* together.
OfficerInputs == {"", "u1"}
LocationInputs == {"", "shop"}
UpdateNotesInputs == {"", "fixed"}
\* What is typed for a new vehicle, and what the fleet tab's inline editor can
\* hold when it is saved.
NewUnitNumber == "U1"
UnitNumberInputs == {"U1", "U2"}
\* The <select> of the default priority of the work-order settings.
PriorityInputs == {"normal", "high"}
SettingsTabs == {"users", "vehicles", "workorders"}
\* new Date().toISOString(): a timestamp, whatever its value.
Now == "t"

VARIABLES
    \* backend tables
    profiles,                 \* principal -> role
    vehicles,                 \* vehicle id -> row
    vehicle_status_history,   \* sequence of rows, in insertion order
    work_orders,              \* sequence of rows, in insertion order (id = index)
    page,                     \* the route each session shows
    \* Vehicles page + VehicleModal, per session
    isModalOpen,
    selectedVehicle,          \* the `vehicle` prop: NoVehicle or the snapshot [id, status]
    showWorkOrderModal,
    vmPc,                     \* handleSubmit of VehicleModal: where it is
    \* WorkOrderModal, per session
    womPc,                    \* handleSubmit of WorkOrderModal: where it is
    \* WorkOrders page, per session
    selectedWorkOrder,
    updateNotes,
    cwPc,                     \* handleCompleteWorkOrder: where it is
    \* the last direct request to the backend (policy layer)
    lastRequest,
    \* the `error` state of the components a session shows
    error,
    \* backend table of the work-order template settings (id = index)
    work_order_settings,
    \* Settings page, per session
    activeTab,
    workOrderSettings,        \* the settings the page holds; id 0: no id
    editingVehicle,           \* the fleet row under the inline editor; 0: null
    wosPc,                    \* the requests of the work-orders tab not answered yet
    \* one browser, seen from its auth store and its router
    authStore,                \* useAuthStore: session, profile, isAdmin
    fetching,                 \* the users whose fetchProfile has not answered yet
    location,                 \* the path the router shows
    \* the backup script
    bkPc,                     \* backupAllTables: where it is
    tables,                   \* the table list it got
    attempted,                \* the tables it has asked the rows of, in order
    backupDir,                \* the directory was made
    csvFiles,                 \* the tables saved in the directory
    zipFile,                  \* the archive was finalized and closed
    uploads,                  \* the uploads that reached the document library
    \* WorkOrders page, per session: handleUpdateStatus is waiting for its request
    updating

dbVars == <<profiles, vehicles, vehicle_status_history, work_orders>>
vmVars == <<isModalOpen, selectedVehicle, showWorkOrderModal, vmPc>>
woVars == <<womPc, selectedWorkOrder, updateNotes, cwPc>>
settingsVars == <<work_order_settings, activeTab, workOrderSettings, editingVehicle, wosPc>>
authVars == <<authStore, fetching, location>>
backupVars == <<bkPc, tables, attempted, backupDir, csvFiles, zipFile, uploads>>
vars == <<profiles, vehicles, vehicle_status_history, work_orders, page,
          isModalOpen, selectedVehicle, showWorkOrderModal, vmPc,
          womPc, selectedWorkOrder, updateNotes, cwPc, lastRequest, error,
          work_order_settings, activeTab, workOrderSettings, editingVehicle, wosPc,
          authStore, fetching, location,
          bkPc, tables, attempted, backupDir, csvFiles, zipFile, uploads, updating>>

\* --------------------------------------------------------- policy layer
\* is_admin(user_id): EXISTS (SELECT 1 FROM profiles WHERE id = user_id AND role = 'admin')
is_admin(user_id) == user_id \in DOMAIN profiles /\ profiles[user_id] = "admin"

\* A vehicles policy that lets every authenticated principal write: USING (true).
VehiclesOpenPolicy(uid) == uid \in Principals

\* "Admins can modify vehicles" ON vehicles FOR ALL USING (is_admin(auth.uid()))
VehiclesModifyPolicy(uid) == is_admin(uid)
\* "Admins can update work orders" ON work_orders FOR UPDATE USING (is_admin(auth.uid()))
WorkOrdersUpdatePolicy(uid) == is_admin(uid)
\* "Admins can update profiles" ON profiles FOR UPDATE USING (is_admin(auth.uid()))
ProfilesUpdatePolicy(uid) == is_admin(uid)
\* "All users can create status history" ... FOR INSERT WITH CHECK (true)
HistoryInsertPolicy(uid) == uid \in Principals
\* A vehicle_status_history policy that lets admins delete rows.
HistoryAdminDeletePolicy(uid) == is_admin(uid)
\* vehicle_status_history has a policy FOR SELECT and one FOR INSERT and no
\* other: with row-level security on, no row passes for UPDATE or DELETE.
HistoryUpdatePolicy(uid) == FALSE
HistoryDeletePolicy(uid) == FALSE
\* A work_orders policy that shows the rows to admins only.
WorkOrdersAdminSelectPolicy(uid) == is_admin(uid)
\* "All authenticated users can view vehicles" ... FOR SELECT USING (true)
VehiclesSelectPolicy(uid) == uid \in Principals
\* "All authenticated users can view status history" ... FOR SELECT USING (true)
HistorySelectPolicy(uid) == uid \in Principals
\* "All authenticated users can view work orders" ... FOR SELECT USING (true)
WorkOrdersSelectPolicy(uid) == uid \in Principals
\* A profiles policy that shows every principal its own row and no other.
ProfilesSelectOwnPolicy(uid, id) == uid = id
\* "Users can view their own profile" ... USING (auth.uid() = id), or-ed with
\* "Admins can view all profiles" ... USING (is_admin(auth.uid()))
ProfilesSelectPolicy(uid, id) == uid = id \/ is_admin(uid)
\* "All users can create work orders" ... FOR INSERT WITH CHECK (true)
WorkOrdersInsertPolicy(uid) == uid \in Principals

\* ------------------------------------------------------- table operations
\* The smallest id not in use stands for a fresh uuid.
NewVehicleId == CHOOSE i \in 1..(MaxVehicles + 1) : i \notin DOMAIN vehicles /\
                    \A j \in 1..(i - 1) : j \in DOMAIN vehicles

\* supabase.from('vehicles').insert([row]) as principal uid.
VehiclesInsert(uid, row) ==
    IF VehiclesModifyPolicy(uid)
    THEN [i \in DOMAIN vehicles \cup {NewVehicleId} |->
            IF i = NewVehicleId THEN row ELSE vehicles[i]]
    ELSE vehicles

\* supabase.from('vehicles').update(patch).eq('id', id) as principal uid;
\* patch is a function from column names to values.
VehiclesUpdate(uid, id, patch) ==
    IF VehiclesModifyPolicy(uid) /\ id \in DOMAIN vehicles
    THEN [vehicles EXCEPT ![id] =
            [c \in DOMAIN vehicles[id] |->
                IF c \in DOMAIN patch THEN patch[c] ELSE vehicles[id][c]]]
    ELSE vehicles

\* supabase.from('vehicles').delete().eq('id', id) as principal uid.
VehiclesDelete(uid, id) ==
    IF VehiclesModifyPolicy(uid)
    THEN [i \in DOMAIN vehicles \ {id} |-> vehicles[i]]
    ELSE vehicles

\* supabase.from('work_orders').update(patch).eq('id', id) as principal uid.
WorkOrdersUpdate(uid, id, patch) ==
    IF WorkOrdersUpdatePolicy(uid) /\ id \in DOMAIN work_orders
    THEN [work_orders EXCEPT ![id] =
            [c \in DOMAIN work_orders[id] |->
                IF c \in DOMAIN patch THEN patch[c] ELSE work_orders[id][c]]]
    ELSE work_orders

\* Columns an insert leaves out take the column default.
WorkOrderDefaults ==
    [status |-> "pending", resolved_at |-> NULL, resolved_by |-> NULL,
     resolution_notes |-> NULL]

\* supabase.from('work_orders').insert([row]) as principal uid.
WorkOrdersInsert(uid, row) ==
    IF WorkOrdersInsertPolicy(uid)
    THEN Append(work_orders,
                [c \in DOMAIN WorkOrderDefaults \cup DOMAIN row |->
                    IF c \in DOMAIN row THEN row[c] ELSE WorkOrderDefaults[c]])
    ELSE work_orders

\* supabase.from('profiles').update({role}).eq('id', id) as principal uid.
ProfilesUpdate(uid, id, role) ==
    IF ProfilesUpdatePolicy(uid) /\ id \in DOMAIN profiles
    THEN [profiles EXCEPT ![id] = role]
    ELSE profiles

\* supabase.from('profiles').select('*') as principal uid: the ids of the rows
\* returned.
ProfilesSelect(uid) == {id \in DOMAIN profiles : ProfilesSelectPolicy(uid, id)}

\* supabase.from('vehicles').select('*') as principal uid: the ids of the rows
\* returned. The SELECT policy and the FOR ALL policy are or-ed.
VehiclesSelect(uid) ==
    {id \in DOMAIN vehicles : VehiclesSelectPolicy(uid) \/ VehiclesModifyPolicy(uid)}

\* supabase.from('vehicle_status_history').select('*') as principal uid.
HistorySelect(uid) == {i \in DOMAIN vehicle_status_history : HistorySelectPolicy(uid)}

\* supabase.from('work_orders').select('*') as principal uid.
WorkOrdersSelect(uid) == {id \in DOMAIN work_orders : WorkOrdersSelectPolicy(uid)}

\* supabase.from('vehicle_status_history').insert([row]) as principal uid.
HistoryInsert(uid, row) ==
    IF HistoryInsertPolicy(uid)
    THEN Append(vehicle_status_history, row)
    ELSE vehicle_status_history

\* supabase.from('vehicle_status_history').update({new_status}).eq('id', i) as
\* principal uid (a row's id is its place in the table).
HistoryUpdate(uid, i, new_status) ==
    IF HistoryUpdatePolicy(uid) /\ i \in DOMAIN vehicle_status_history
    THEN [vehicle_status_history EXCEPT ![i].new_status = new_status]
    ELSE vehicle_status_history

\* supabase.from('vehicle_status_history').delete().eq('id', i) as principal uid.
HistoryDelete(uid, i) ==
    IF HistoryDeletePolicy(uid) /\ i \in DOMAIN vehicle_status_history
    THEN SubSeq(vehicle_status_history, 1, i - 1) \o
         SubSeq(vehicle_status_history, i + 1, Len(vehicle_status_history))
    ELSE vehicle_status_history

\* The row update_vehicle_status appends: the previous status is the one the
\* vehicle row holds when the procedure runs.
StatusHistoryEntry(uid, vehicle_id, new_status) ==
    [vehicle_id |-> vehicle_id,
     previous_status |-> IF vehicle_id \in DOMAIN vehicles
                         THEN vehicles[vehicle_id].status ELSE NULL,
     new_status |-> new_status,
     changed_by |-> uid]

\* ------------------------------------------------------------ the sessions
\* The store's isAdmin of a session: the role of the profile it fetched.
isAdmin(s) == is_admin(s)

\* No vehicle selected (the `vehicle` prop is undefined).
NoVehicle == [id |-> 0, status |-> NULL]
\* A handler that is not running.
Idle == [pc |-> "idle", vehicle_id |-> 0, status |-> NULL, before |-> NULL]
WomIdle == [pc |-> "idle", lastWorkOrderNumber |-> 0]
CwIdle == [pc |-> "idle", id |-> 0, vehicle_id |-> 0]
\* No component shows an error, and the browser shows no validation message
\* on the vehicle form.
NoError == [VehicleModal |-> NULL, WorkOrderModal |-> NULL, WorkOrders |-> NULL,
            validation |-> FALSE]
\* No request of the work-orders tab is waiting: no fetch, and no insert whose
\* row the page has yet to take.
WosIdle == [fetch |-> FALSE, inserted |-> {}]
\* useState of workOrderSettings: the defaults, without an id.
DefaultWorkOrderSettings == [id |-> 0, default_priority |-> "normal"]
\* The auth store as create() leaves it: no session, no profile.
NoProfile == [id |-> NULL, role |-> NULL]
EmptyStore == [session |-> NULL, profile |-> NoProfile, isAdmin |-> FALSE]
\* No request was sent to the backend directly.
NoRequest == [by |-> NULL, admin |-> FALSE, table |-> NULL, op |-> NULL,
              returned |-> {}]


Init ==
    /\ profiles = [p \in Principals |-> IF p = "u1" THEN "user" ELSE "admin"]
    /\ vehicles = <<>>
    /\ vehicle_status_history = <<>>
    /\ work_orders = <<>>
    /\ page = [s \in Sessions |-> "dashboard"]
    /\ isModalOpen = [s \in Sessions |-> FALSE]
    /\ selectedVehicle = [s \in Sessions |-> NoVehicle]
    /\ showWorkOrderModal = [s \in Sessions |-> FALSE]
    /\ vmPc = [s \in Sessions |-> Idle]
    /\ womPc = [s \in Sessions |-> WomIdle]
    /\ selectedWorkOrder = [s \in Sessions |-> 0]
    /\ updateNotes = [s \in Sessions |-> ""]
    /\ cwPc = [s \in Sessions |-> CwIdle]
    /\ lastRequest = NoRequest
    /\ error = [s \in Sessions |-> NoError]
    /\ work_order_settings = <<>>
    /\ activeTab = [s \in Sessions |-> "users"]
    /\ workOrderSettings = [s \in Sessions |-> DefaultWorkOrderSettings]
    /\ editingVehicle = [s \in Sessions |-> 0]
    /\ wosPc = [s \in Sessions |-> WosIdle]
    /\ authStore = EmptyStore
    /\ fetching = {}
    /\ location = "login"
    /\ bkPc = "start"
    /\ tables = <<>>
    /\ attempted = <<>>
    /\ backupDir = FALSE
    /\ csvFiles = {}
    /\ zipFile = FALSE
    /\ uploads = 0
    /\ updating = [s \in Sessions |-> FALSE]

\* ------------------------------------------------- Vehicles page, VehicleModal
\* The WorkOrderModal that VehicleModal renders: {showWorkOrderModal && vehicle && ...},
\* inside a component that renders nothing unless isOpen.
PromptVisible(s) ==
    isModalOpen[s] /\ showWorkOrderModal[s] /\ selectedVehicle[s] # NoVehicle

\* The vehicle form can be used: the modal is open, no save is running (the
\* submit button is disabled while loading) and the prompt does not cover it.
FormUsable(s) ==
    page[s] = "vehicles" /\ isModalOpen[s] /\ vmPc[s].pc = "idle" /\ ~PromptVisible(s)

\* handleAddVehicle: setSelectedVehicle(undefined); setIsModalOpen(true).
handleAddVehicle(s) ==
    /\ page[s] = "vehicles"
    /\ isAdmin(s)
    /\ ~isModalOpen[s]
    /\ vmPc[s].pc = "idle"
    /\ isModalOpen' = [isModalOpen EXCEPT ![s] = TRUE]
    /\ selectedVehicle' = [selectedVehicle EXCEPT ![s] = NoVehicle]
    /\ UNCHANGED <<dbVars, page, showWorkOrderModal, vmPc, woVars, lastRequest, error, settingsVars, authVars, backupVars, updating>>

\* handleEditVehicle(vehicle), on a row of the list the page has just fetched:
\* the modal keeps this snapshot for as long as it stays open.
handleEditVehicle(s, id) ==
    /\ page[s] = "vehicles"
    /\ isAdmin(s)
    /\ ~isModalOpen[s]
    /\ vmPc[s].pc = "idle"
    /\ id \in DOMAIN vehicles
    /\ isModalOpen' = [isModalOpen EXCEPT ![s] = TRUE]
    /\ selectedVehicle' = [selectedVehicle EXCEPT ![s] =
                              [id |-> id, status |-> vehicles[id].status]]
    /\ UNCHANGED <<dbVars, page, showWorkOrderModal, vmPc, woVars, lastRequest, error, settingsVars, authVars, backupVars, updating>>

\* The contents of a form whose status <select> has no option "available".
FormContentsNoAvailable ==
    {f \in [status : VehicleStatuses \ {"available"}, assigned_to : OfficerInputs,
            current_location : LocationInputs] :
        /\ f.status # "assigned" => f.assigned_to = ""
        /\ f.status # "out_of_service" => f.current_location = ""}

\* The contents formData can have when the form is submitted. The status
\* <select>'s onChange empties assigned_to unless the status is assigned and
\* current_location unless it is out_of_service; each of the two inputs is
\* rendered, and can be typed in, only under its own status.
FormContents ==
    {f \in [status : VehicleStatuses, assigned_to : OfficerInputs,
            current_location : LocationInputs] :
        /\ f.status # "assigned" => f.assigned_to = ""
        /\ f.status # "out_of_service" => f.current_location = ""}

\* A check of the form that lets every submit through.
FormUnchecked(f) == f \in FormContents

\* The browser's check of the `required` inputs before it fires onSubmit.
FormValid(f) ==
    /\ f.status = "assigned" => f.assigned_to # ""
    /\ f.status = "out_of_service" => f.current_location # ""

\* vehicleData of handleSubmit, as far as the update sends it: status,
\* assigned_to, current_location (and notes).
VehicleData(f) ==
    [status |-> f.status,
     assigned_to |-> IF f.status = "assigned" THEN f.assigned_to ELSE NULL,
     current_location |-> IF f.status = "out_of_service" THEN f.current_location
                          ELSE NULL]

\* The row handleSubmit inserts: vehicleData whole, the descriptive columns of
\* the form included.
NewVehicleRow(f) ==
    [unit_number |-> NewUnitNumber, status |-> VehicleData(f).status,
     assigned_to |-> VehicleData(f).assigned_to,
     current_location |-> VehicleData(f).current_location]

\* The end of a successful handleSubmit: onVehicleUpdate(), and onClose() unless
\* the saved status is out_of_service.
SubmitDone(s, status) ==
    /\ isModalOpen' = [isModalOpen EXCEPT ![s] =
                          IF status # "out_of_service" THEN FALSE ELSE @]
    /\ vmPc' = [vmPc EXCEPT ![s] = Idle]

\* No more history rows are started than the model keeps.
HistoryRoom ==
    Len(vehicle_status_history) + Cardinality({t \in Sessions : vmPc[t].pc = "rpc"})
        < MaxHistory

\* The status procedure is called if the status of the snapshot differs from
\* the form's: `vehicle.status !== formData.status`.
StatusHasChanged(vehicle, f) == vehicle.status # f.status

\* handleSubmit with a vehicle, form contents f, up to the first await: the
\* update of the row. While the handler waits, vmPc keeps what it goes on
\* with (the vehicle's id, formData.status) and, for the properties, the status
\* the row had before the update (`before`).
SubmitUpdate(s, f) ==
    /\ FormUsable(s)
    /\ selectedVehicle[s] # NoVehicle
    /\ FormValid(f)
    /\ HistoryRoom
    /\ LET id == selectedVehicle[s].id
       IN  /\ vehicles' = VehiclesUpdate(s, id, VehicleData(f))
           /\ IF StatusHasChanged(selectedVehicle[s], f)
              THEN /\ vmPc' = [vmPc EXCEPT ![s] =
                                 [pc |-> "rpc", vehicle_id |-> id, status |-> f.status,
                                  before |-> IF id \in DOMAIN vehicles
                                             THEN vehicles[id].status ELSE NULL]]
                   /\ UNCHANGED isModalOpen
              ELSE SubmitDone(s, f.status)
    /\ error' = [error EXCEPT ![s].VehicleModal = NULL, ![s].validation = FALSE]
    /\ UNCHANGED <<profiles, page, vehicle_status_history, work_orders, selectedVehicle,
                   showWorkOrderModal, woVars, lastRequest, settingsVars, authVars, backupVars, updating>>

\* handleSubmit without a vehicle, form contents f, up to the first await: the
\* insert of the row.
SubmitInsert(s, f) ==
    /\ FormUsable(s)
    /\ selectedVehicle[s] = NoVehicle
    /\ FormValid(f)
    /\ HistoryRoom
    /\ Cardinality(DOMAIN vehicles) < MaxVehicles
    /\ vehicles' = VehiclesInsert(s, NewVehicleRow(f))
    /\ vmPc' = [vmPc EXCEPT ![s] =
                  [pc |-> "rpc", vehicle_id |-> NewVehicleId, status |-> f.status,
                   before |-> NULL]]
    /\ error' = [error EXCEPT ![s].VehicleModal = NULL, ![s].validation = FALSE]
    /\ UNCHANGED <<profiles, page, vehicle_status_history, work_orders, isModalOpen,
                   selectedVehicle, showWorkOrderModal, woVars, lastRequest, settingsVars, authVars, backupVars, updating>>

\* rpc('update_vehicle_status', {vehicle_id, new_status, notes}) as principal uid:
\* sets the row's status and appends the history row, in one transaction.
update_vehicle_status(uid, vehicle_id, new_status) ==
    /\ vehicle_status_history' =
          Append(vehicle_status_history,
                 StatusHistoryEntry(uid, vehicle_id, new_status))
    /\ vehicles' = IF vehicle_id \in DOMAIN vehicles
                   THEN [vehicles EXCEPT ![vehicle_id].status = new_status]
                   ELSE vehicles

\* handleSubmit after the row was written: the status procedure, then the
\* prompt for a work order if the status is out_of_service, then the end.
SubmitRpc(s) ==
    /\ vmPc[s].pc = "rpc"
    /\ update_vehicle_status(s, vmPc[s].vehicle_id, vmPc[s].status)
    /\ showWorkOrderModal' = [showWorkOrderModal EXCEPT ![s] =
                                 IF vmPc[s].status = "out_of_service" THEN TRUE ELSE @]
    /\ SubmitDone(s, vmPc[s].status)
    /\ UNCHANGED <<profiles, page, work_orders, selectedVehicle, woVars, lastRequest, error, settingsVars, authVars, backupVars, updating>>

\* The modal's Cancel and X buttons: onClose().
CloseVehicleModal(s) ==
    /\ FormUsable(s)
    /\ isModalOpen' = [isModalOpen EXCEPT ![s] = FALSE]
    /\ error' = [error EXCEPT ![s].validation = FALSE]
    /\ UNCHANGED <<dbVars, page, selectedVehicle, showWorkOrderModal, vmPc,
                   woVars, lastRequest, settingsVars, authVars, backupVars, updating>>

\* ------------------------------------------------------------ Settings page
\* handleCreateVehicle of the fleet tab: one insert, status 'available'; the
\* columns it leaves out are null. The page is rendered for admins only.
handleCreateVehicle(s) ==
    /\ page[s] = "settings"
    /\ isAdmin(s)
    /\ Cardinality(DOMAIN vehicles) < MaxVehicles
    /\ vehicles' = VehiclesInsert(s, [unit_number |-> NewUnitNumber,
                                      status |-> "available", assigned_to |-> NULL,
                                      current_location |-> NULL])
    /\ UNCHANGED <<profiles, page, vehicle_status_history, work_orders, vmVars, woVars,
                   lastRequest, error, settingsVars, authVars, backupVars, updating>>

\* The tab buttons: setActiveTab(tab). The effect on [activeTab] starts the
\* fetch of the tab; the panel of the tab is rendered at once, since `loading`
\* is never set back to true.
setActiveTab(s, tab) ==
    /\ page[s] = "settings"
    /\ isAdmin(s)
    /\ tab # activeTab[s]
    /\ activeTab' = [activeTab EXCEPT ![s] = tab]
    /\ wosPc' = [wosPc EXCEPT ![s].fetch = (tab = "workorders")]
    /\ UNCHANGED <<dbVars, page, vmVars, woVars, lastRequest, error,
                   work_order_settings, workOrderSettings, editingVehicle, authVars, backupVars, updating>>

\* .from('work_order_settings').select('*').limit(1).single(): a row of the
\* table, whichever the backend returns first; none from an empty table.
FirstSettingsRows == IF work_order_settings = <<>> THEN {}
                     ELSE {[id |-> i, default_priority |-> work_order_settings[i]] :
                              i \in 1..Len(work_order_settings)}

\* fetchWorkOrderSettings: the answer of the select arrives. `if (data)
\* setWorkOrderSettings(data)`; with no row the page keeps what it holds.
fetchWorkOrderSettings(s) ==
    /\ wosPc[s].fetch
    /\ wosPc' = [wosPc EXCEPT ![s].fetch = FALSE]
    /\ IF FirstSettingsRows = {}
       THEN UNCHANGED workOrderSettings
       ELSE \E data \in FirstSettingsRows :
               workOrderSettings' = [workOrderSettings EXCEPT ![s] = data]
    /\ UNCHANGED <<dbVars, page, vmVars, woVars, lastRequest, error,
                   work_order_settings, activeTab, editingVehicle, authVars, backupVars, updating>>

\* The inputs of the work-orders tab: setWorkOrderSettings({...workOrderSettings, ...}).
setWorkOrderSettings(s, priority) ==
    /\ page[s] = "settings"
    /\ activeTab[s] = "workorders"
    /\ priority # workOrderSettings[s].default_priority
    /\ workOrderSettings' = [workOrderSettings EXCEPT ![s].default_priority = priority]
    /\ UNCHANGED <<dbVars, page, vmVars, woVars, lastRequest, error,
                   work_order_settings, activeTab, editingVehicle, wosPc, authVars, backupVars, updating>>

\* handleSaveWorkOrderSettings up to its await: with an id the row of that id
\* is updated; without one a row is inserted, and the handler waits for the
\* inserted row. The Save button stays enabled meanwhile.
handleSaveWorkOrderSettings(s) ==
    /\ page[s] = "settings"
    /\ activeTab[s] = "workorders"
    /\ IF workOrderSettings[s].id # 0
       THEN /\ work_order_settings' =
                  [work_order_settings EXCEPT ![workOrderSettings[s].id] =
                      workOrderSettings[s].default_priority]
            /\ UNCHANGED wosPc
       ELSE /\ Len(work_order_settings) < MaxSettingsRows
            /\ work_order_settings' =
                  Append(work_order_settings, workOrderSettings[s].default_priority)
            /\ wosPc' = [wosPc EXCEPT ![s].inserted = @ \cup {Len(work_order_settings) + 1}]
    /\ UNCHANGED <<dbVars, page, vmVars, woVars, lastRequest, error,
                   activeTab, workOrderSettings, editingVehicle, authVars, backupVars,
                   updating>>

\* handleSaveWorkOrderSettings after the insert: `if (data)
\* setWorkOrderSettings(data)`, the inserted row with its id.
saveWorkOrderSettingsReturns(s, id) ==
    /\ id \in wosPc[s].inserted
    /\ wosPc' = [wosPc EXCEPT ![s].inserted = @ \ {id}]
    /\ workOrderSettings' = [workOrderSettings EXCEPT ![s] =
                                [id |-> id, default_priority |-> work_order_settings[id]]]
    /\ UNCHANGED <<dbVars, page, vmVars, woVars, lastRequest, error,
                   work_order_settings, activeTab, editingVehicle, authVars, backupVars,
                   updating>>

\* The edit button of a fleet row: setEditingVehicle(vehicle).
setEditingVehicle(s, id) ==
    /\ page[s] = "settings"
    /\ activeTab[s] = "vehicles"
    /\ id \in DOMAIN vehicles
    /\ editingVehicle[s] # id
    /\ editingVehicle' = [editingVehicle EXCEPT ![s] = id]
    /\ UNCHANGED <<dbVars, page, vmVars, woVars, lastRequest, error,
                   work_order_settings, activeTab, workOrderSettings, wosPc, authVars, backupVars, updating>>

\* The X button of the row under the editor: setEditingVehicle(null).
cancelEditingVehicle(s) ==
    /\ page[s] = "settings"
    /\ activeTab[s] = "vehicles"
    /\ editingVehicle[s] # 0
    /\ editingVehicle' = [editingVehicle EXCEPT ![s] = 0]
    /\ UNCHANGED <<dbVars, page, vmVars, woVars, lastRequest, error,
                   work_order_settings, activeTab, workOrderSettings, wosPc, authVars, backupVars, updating>>

\* handleUpdateVehicle(editingVehicle), the editor holding unit_number: the
\* update of the descriptive columns of the row, then setEditingVehicle(null).
handleUpdateVehicle(s, unit_number) ==
    /\ page[s] = "settings"
    /\ activeTab[s] = "vehicles"
    /\ editingVehicle[s] # 0
    /\ vehicles' = VehiclesUpdate(s, editingVehicle[s], [unit_number |-> unit_number])
    /\ editingVehicle' = [editingVehicle EXCEPT ![s] = 0]
    /\ UNCHANGED <<profiles, vehicle_status_history, work_orders, page, vmVars, woVars,
                   lastRequest, error, work_order_settings, activeTab,
                   workOrderSettings, wosPc, authVars, backupVars, updating>>

\* ------------------------------------------------------------ WorkOrderModal
\* A work_order_number that is null.
NoNumber == 0 - 1

Max(S) == CHOOSE x \in S : \A y \in S : y <= x

\* .select('work_order_number').order('work_order_number', { ascending: false })
\* .limit(1), then `length > 0 ? lastWorkOrder[0].work_order_number : 0`.
\* A descending sort of the backend puts null first.
LastWorkOrderNumber ==
    LET numbers == {work_orders[i].work_order_number : i \in DOMAIN work_orders}
    IN  IF numbers = {} THEN 0
        ELSE IF NoNumber \in numbers THEN NoNumber
        ELSE Max(numbers)

\* A next number that is the last one again.
NewWorkOrderNumberRepeated(lastWorkOrderNumber) ==
    IF lastWorkOrderNumber = NoNumber THEN 1 ELSE lastWorkOrderNumber

\* lastWorkOrderNumber + 1, where null + 1 is 1.
NewWorkOrderNumber(lastWorkOrderNumber) ==
    IF lastWorkOrderNumber = NoNumber THEN 1 ELSE lastWorkOrderNumber + 1

\* No more numbered work orders are started than the model keeps.
WorkOrderRoom ==
    Cardinality({i \in DOMAIN work_orders : work_orders[i].work_order_number # NoNumber})
        + Cardinality({t \in Sessions : womPc[t].pc = "insert"})
        < MaxWorkOrders

\* handleSubmit of WorkOrderModal up to its first await: the read of the
\* last work order number.
WomRead(s) ==
    /\ PromptVisible(s)
    /\ womPc[s].pc = "idle"
    /\ WorkOrderRoom
    /\ womPc' = [womPc EXCEPT ![s] =
                    [pc |-> "insert", lastWorkOrderNumber |-> LastWorkOrderNumber]]
    /\ error' = [error EXCEPT ![s].WorkOrderModal = NULL]
    /\ UNCHANGED <<dbVars, page, vmVars, selectedWorkOrder, updateNotes, cwPc, lastRequest, settingsVars, authVars, backupVars, updating>>

\* An insert that allocates the number from the table as it is when the row
\* is written, not from the earlier read.
WomInsertAllocating(s) ==
    /\ womPc[s].pc = "insert"
    /\ work_orders' = WorkOrdersInsert(s,
          [vehicle_id |-> selectedVehicle[s].id,
           created_by |-> s,
           work_order_number |-> NewWorkOrderNumber(LastWorkOrderNumber)])
    /\ womPc' = [womPc EXCEPT ![s] = WomIdle]
    /\ showWorkOrderModal' = [showWorkOrderModal EXCEPT ![s] = FALSE]
    /\ isModalOpen' = [isModalOpen EXCEPT ![s] = FALSE]
    /\ UNCHANGED <<profiles, vehicles, vehicle_status_history, page, selectedVehicle,
                   vmPc, selectedWorkOrder, updateNotes, cwPc, lastRequest, error, settingsVars, authVars, backupVars, updating>>

\* handleSubmit of WorkOrderModal after the read: the insert, then onClose(),
\* which VehicleModal gives as setShowWorkOrderModal(false); onClose().
WomInsert(s) ==
    /\ womPc[s].pc = "insert"
    /\ work_orders' = WorkOrdersInsert(s,
          [vehicle_id |-> selectedVehicle[s].id,
           created_by |-> s,
           work_order_number |-> NewWorkOrderNumber(womPc[s].lastWorkOrderNumber)])
    /\ womPc' = [womPc EXCEPT ![s] = WomIdle]
    /\ showWorkOrderModal' = [showWorkOrderModal EXCEPT ![s] = FALSE]
    /\ isModalOpen' = [isModalOpen EXCEPT ![s] = FALSE]
    /\ error' = [error EXCEPT ![s].WorkOrderModal = NULL]
    /\ UNCHANGED <<profiles, vehicles, vehicle_status_history, page, selectedVehicle,
                   vmPc, selectedWorkOrder, updateNotes, cwPc, lastRequest, settingsVars, authVars, backupVars, updating>>

\* The prompt's Cancel and X buttons: onClose().
WomClose(s) ==
    /\ PromptVisible(s)
    /\ womPc[s].pc = "idle"
    /\ showWorkOrderModal' = [showWorkOrderModal EXCEPT ![s] = FALSE]
    /\ isModalOpen' = [isModalOpen EXCEPT ![s] = FALSE]
    /\ error' = [error EXCEPT ![s].WorkOrderModal = NULL]
    /\ UNCHANGED <<dbVars, page, selectedVehicle, vmPc, woVars, lastRequest, settingsVars, authVars, backupVars, updating>>

\* ---------------------------------------------------------- WorkOrders page
\* The list can be used: no completion is running (the page shows a spinner
\* while loading), the page does not show its error panel instead (`if (error)
\* return`), and the update modal does not cover the list.
ListUsable(s) ==
    /\ page[s] = "work-orders" /\ cwPc[s].pc = "idle" /\ selectedWorkOrder[s] = 0
    /\ error[s].WorkOrders = NULL

\* The "Update Status" button of a row: isAdmin && order.status === 'pending',
\* on a list the page has just fetched.
OpenUpdateModal(s, id) ==
    /\ ListUsable(s)
    /\ isAdmin(s)
    /\ id \in DOMAIN work_orders
    /\ work_orders[id].status = "pending"
    /\ selectedWorkOrder' = [selectedWorkOrder EXCEPT ![s] = id]
    /\ UNCHANGED <<dbVars, page, vmVars, womPc, updateNotes, cwPc, lastRequest, error, settingsVars, authVars, backupVars, updating>>

\* The "Resolution Notes" textarea of the update modal.
setUpdateNotes(s, n) ==
    /\ page[s] = "work-orders"
    /\ selectedWorkOrder[s] # 0
    /\ n # updateNotes[s]
    /\ updateNotes' = [updateNotes EXCEPT ![s] = n]
    /\ UNCHANGED <<dbVars, page, vmVars, womPc, selectedWorkOrder, cwPc, lastRequest, error, settingsVars, authVars, backupVars, updating>>

\* The update modal's Cancel button.
CancelUpdateModal(s) ==
    /\ page[s] = "work-orders"
    /\ selectedWorkOrder[s] # 0
    /\ ~updating[s]
    /\ selectedWorkOrder' = [selectedWorkOrder EXCEPT ![s] = 0]
    /\ updateNotes' = [updateNotes EXCEPT ![s] = ""]
    /\ UNCHANGED <<dbVars, page, vmVars, womPc, cwPc, lastRequest, error, settingsVars, authVars, backupVars, updating>>

\* The patch handleUpdateStatus sends.
UpdateStatusPatch(uid, newStatus, notes) ==
    [status |-> newStatus,
     resolved_at |-> IF newStatus = "completed" THEN Now ELSE NULL,
     resolved_by |-> IF newStatus = "completed" THEN uid ELSE NULL,
     resolution_notes |-> IF notes = "" THEN NULL ELSE notes]

\* handleUpdateStatus(newStatus), from the three buttons of the update modal.
handleUpdateStatus(s, newStatus) ==
    /\ page[s] = "work-orders"
    /\ selectedWorkOrder[s] # 0
    /\ ~updating[s]
    /\ work_orders' = WorkOrdersUpdate(s, selectedWorkOrder[s],
                                       UpdateStatusPatch(s, newStatus, updateNotes[s]))
    /\ selectedWorkOrder' = [selectedWorkOrder EXCEPT ![s] = 0]
    /\ updateNotes' = [updateNotes EXCEPT ![s] = ""]
    /\ UNCHANGED <<profiles, vehicles, vehicle_status_history, page, vmVars, womPc, cwPc,
                   lastRequest, error, settingsVars, authVars, backupVars, updating>>

\* A completion that does not record who resolved the order.
CompletePatchUnsigned(uid) ==
    [status |-> "completed", resolved_at |-> Now, resolved_by |-> NULL]

\* The patch handleCompleteWorkOrder sends to the work order.
CompletePatch(uid) ==
    [status |-> "completed", resolved_at |-> Now, resolved_by |-> uid]

\* handleCompleteWorkOrder(order) up to its first await: the update of the
\* work order. The button shows for isAdmin && order.status !== 'completed'.
CompleteWorkOrder(s, id) ==
    /\ ListUsable(s)
    /\ isAdmin(s)
    /\ id \in DOMAIN work_orders
    /\ work_orders[id].status # "completed"
    /\ work_orders' = WorkOrdersUpdate(s, id, CompletePatch(s))
    /\ cwPc' = [cwPc EXCEPT ![s] =
                  [pc |-> "vehicle", id |-> id, vehicle_id |-> work_orders[id].vehicle_id]]
    /\ error' = [error EXCEPT ![s].WorkOrders = NULL]
    /\ UNCHANGED <<profiles, vehicles, vehicle_status_history, page, vmVars, womPc,
                   selectedWorkOrder, updateNotes, lastRequest, settingsVars, authVars, backupVars, updating>>

\* handleCompleteWorkOrder after the work order was written: the update of the
\* vehicle, {status: 'available'} and nothing else.
CompleteVehicle(s) ==
    /\ cwPc[s].pc = "vehicle"
    /\ vehicles' = VehiclesUpdate(s, cwPc[s].vehicle_id, [status |-> "available"])
    /\ cwPc' = [cwPc EXCEPT ![s] = CwIdle]
    /\ UNCHANGED <<profiles, vehicle_status_history, work_orders, page, vmVars, womPc,
                   selectedWorkOrder, updateNotes, lastRequest, error, settingsVars, authVars, backupVars, updating>>

\* ----------------------------------------------------------- failed requests
\* A request to the backend can come back with an error (the network, the
\* backend): the handler throws, its catch sets the component's error and
\* nothing after the failed await runs.
SaveVehicleError == "Failed to save vehicle. Please try again."
CreateWorkOrderError == "Failed to create work order. Please try again."
CompleteWorkOrderError == "Failed to complete work order"

\* The submit button with a `required` input left empty: the browser shows
\* its validation message and does not fire onSubmit, so handleSubmit does
\* not run.
SubmitBlocked(s, f) ==
    /\ FormUsable(s)
    /\ ~FormValid(f)
    /\ error' = [error EXCEPT ![s].validation = TRUE]
    /\ UNCHANGED <<dbVars, page, vmVars, woVars, lastRequest, settingsVars, authVars, backupVars, updating>>

\* VehicleModal.handleSubmit: the update or the insert of the row fails.
\* Nothing was written; the modal stays open and shows the error.
SubmitWriteFails(s, f) ==
    /\ FormUsable(s)
    /\ FormValid(f)
    /\ error' = [error EXCEPT ![s].VehicleModal = SaveVehicleError,
                               ![s].validation = FALSE]
    /\ UNCHANGED <<dbVars, page, vmVars, woVars, lastRequest, settingsVars, authVars, backupVars, updating>>

\* A catch that only logs the failed status procedure, as handleUpdateStatus
\* of the WorkOrders page does.
SubmitRpcFailsLogged(s) ==
    /\ vmPc[s].pc = "rpc"
    /\ vmPc' = [vmPc EXCEPT ![s] = Idle]
    /\ UNCHANGED <<dbVars, page, isModalOpen, selectedVehicle, showWorkOrderModal,
                   woVars, lastRequest, error, settingsVars, authVars, backupVars, updating>>

\* VehicleModal.handleSubmit: the row was written and the status procedure
\* fails. No prompt, no onVehicleUpdate(), no onClose().
SubmitRpcFails(s) ==
    /\ vmPc[s].pc = "rpc"
    /\ vmPc' = [vmPc EXCEPT ![s] = Idle]
    /\ error' = [error EXCEPT ![s].VehicleModal = SaveVehicleError]
    /\ UNCHANGED <<dbVars, page, isModalOpen, selectedVehicle, showWorkOrderModal,
                   woVars, lastRequest, settingsVars, authVars, backupVars, updating>>

\* WorkOrderModal.handleSubmit: the read of the last number fails.
WomReadFails(s) ==
    /\ PromptVisible(s)
    /\ womPc[s].pc = "idle"
    /\ error' = [error EXCEPT ![s].WorkOrderModal = CreateWorkOrderError]
    /\ UNCHANGED <<dbVars, page, vmVars, woVars, lastRequest, settingsVars, authVars, backupVars, updating>>

\* WorkOrderModal.handleSubmit: the insert fails; the prompt stays.
WomInsertFails(s) ==
    /\ womPc[s].pc = "insert"
    /\ womPc' = [womPc EXCEPT ![s] = WomIdle]
    /\ error' = [error EXCEPT ![s].WorkOrderModal = CreateWorkOrderError]
    /\ UNCHANGED <<dbVars, page, vmVars, selectedWorkOrder, updateNotes, cwPc,
                   lastRequest, settingsVars, authVars, backupVars, updating>>

\* handleCompleteWorkOrder: the update of the work order fails; the update of
\* the vehicle is not sent.
CompleteWorkOrderFails(s, id) ==
    /\ ListUsable(s)
    /\ isAdmin(s)
    /\ id \in DOMAIN work_orders
    /\ work_orders[id].status # "completed"
    /\ error' = [error EXCEPT ![s].WorkOrders = CompleteWorkOrderError]
    /\ UNCHANGED <<dbVars, page, vmVars, woVars, lastRequest, settingsVars, authVars, backupVars, updating>>

\* A failed update of the vehicle that goes unreported.
CompleteVehicleFailsLogged(s) ==
    /\ cwPc[s].pc = "vehicle"
    /\ cwPc' = [cwPc EXCEPT ![s] = CwIdle]
    /\ UNCHANGED <<dbVars, page, vmVars, womPc, selectedWorkOrder, updateNotes,
                   lastRequest, error, settingsVars, authVars, backupVars, updating>>

\* handleCompleteWorkOrder: the work order was written and the update of the
\* vehicle fails.
CompleteVehicleFails(s) ==
    /\ cwPc[s].pc = "vehicle"
    /\ cwPc' = [cwPc EXCEPT ![s] = CwIdle]
    /\ error' = [error EXCEPT ![s].WorkOrders = CompleteWorkOrderError]
    /\ UNCHANGED <<dbVars, page, vmVars, womPc, selectedWorkOrder, updateNotes,
                   lastRequest, settingsVars, authVars, backupVars, updating>>

\* handleUpdateStatus whose update will fail: setUpdating(true) and the
\* request is on its way; the buttons of the modal are disabled.
handleUpdateStatusSent(s) ==
    /\ page[s] = "work-orders"
    /\ selectedWorkOrder[s] # 0
    /\ ~updating[s]
    /\ updating' = [updating EXCEPT ![s] = TRUE]
    /\ UNCHANGED <<dbVars, page, vmVars, woVars, lastRequest, error, settingsVars,
                   authVars, backupVars>>

\* The update of handleUpdateStatus fails: the catch logs to the console, the
\* finally does setUpdating(false); the modal stays open as it was.
handleUpdateStatusFails(s) ==
    /\ updating[s]
    /\ updating' = [updating EXCEPT ![s] = FALSE]
    /\ UNCHANGED <<dbVars, page, vmVars, woVars, lastRequest, error, settingsVars,
                   authVars, backupVars>>

FaultStep(s) ==
    \/ \E f \in FormContents : SubmitBlocked(s, f)
    \/ \E f \in FormContents : SubmitWriteFails(s, f)
    \/ SubmitRpcFails(s)
    \/ WomReadFails(s)
    \/ WomInsertFails(s)
    \/ \E id \in 1..MaxWorkOrders : CompleteWorkOrderFails(s, id)
    \/ CompleteVehicleFails(s)
    \/ handleUpdateStatusSent(s)
    \/ handleUpdateStatusFails(s)

\* ------------------------------------------------------------------ routing
\* A session with no handler between two awaits.
SessionIdle(s) == vmPc[s].pc = "idle" /\ womPc[s].pc = "idle" /\ cwPc[s].pc = "idle"

\* Following a link of the layout: the page left is unmounted and its state
\* is gone; /settings is behind AdminRoute.
Navigate(s, p) ==
    /\ SessionIdle(s)
    /\ p # page[s]
    /\ p = "settings" => isAdmin(s)
    /\ page' = [page EXCEPT ![s] = p]
    /\ isModalOpen' = [isModalOpen EXCEPT ![s] = FALSE]
    /\ selectedVehicle' = [selectedVehicle EXCEPT ![s] = NoVehicle]
    /\ showWorkOrderModal' = [showWorkOrderModal EXCEPT ![s] = FALSE]
    /\ selectedWorkOrder' = [selectedWorkOrder EXCEPT ![s] = 0]
    /\ updateNotes' = [updateNotes EXCEPT ![s] = ""]
    /\ error' = [error EXCEPT ![s] = NoError]
    /\ activeTab' = [activeTab EXCEPT ![s] = "users"]
    /\ workOrderSettings' = [workOrderSettings EXCEPT ![s] = DefaultWorkOrderSettings]
    /\ editingVehicle' = [editingVehicle EXCEPT ![s] = 0]
    /\ wosPc' = [wosPc EXCEPT ![s] = WosIdle]
    /\ updating' = [updating EXCEPT ![s] = FALSE]
    /\ UNCHANGED <<dbVars, vmPc, womPc, cwPc, lastRequest, work_order_settings, authVars,
                   backupVars>>

\* What session s can do next.
VehicleStep(s) ==
    \/ handleAddVehicle(s)
    \/ \E id \in 1..MaxVehicles : handleEditVehicle(s, id)
    \/ \E f \in FormContents : SubmitUpdate(s, f)
    \/ \E f \in FormContents : SubmitInsert(s, f)
    \/ SubmitRpc(s)
    \/ CloseVehicleModal(s)
    \/ handleCreateVehicle(s)

WorkOrderStep(s) ==
    \/ WomRead(s)
    \/ WomInsert(s)
    \/ WomClose(s)
    \/ \E id \in 1..MaxWorkOrders : OpenUpdateModal(s, id)
    \/ \E n \in UpdateNotesInputs : setUpdateNotes(s, n)
    \/ CancelUpdateModal(s)
    \/ \E st \in {"in_progress", "completed", "cancelled"} : handleUpdateStatus(s, st)
    \/ \E id \in 1..MaxWorkOrders : CompleteWorkOrder(s, id)
    \/ CompleteVehicle(s)

RouteStep(s) == \E p \in Pages : Navigate(s, p)

\* Both sessions at work, their steps interleaved at every await.
Next == \E s \in Sessions : VehicleStep(s) \/ WorkOrderStep(s) \/ RouteStep(s)

\* What session s can do on the Settings page besides creating a vehicle.
SettingsStep(s) ==
    \/ \E tab \in SettingsTabs : setActiveTab(s, tab)
    \/ fetchWorkOrderSettings(s)
    \/ \E priority \in PriorityInputs : setWorkOrderSettings(s, priority)
    \/ handleSaveWorkOrderSettings(s)
    \/ \E id \in 1..MaxSettingsRows : saveWorkOrderSettingsReturns(s, id)
    \/ \E id \in 1..MaxVehicles : setEditingVehicle(s, id)
    \/ cancelEditingVehicle(s)
    \/ \E unit_number \in UnitNumberInputs : handleUpdateVehicle(s, unit_number)

\* Both sessions at work on the Settings page.
SettingsNext ==
    \E s \in Sessions : handleCreateVehicle(s) \/ SettingsStep(s) \/ RouteStep(s)

SpecSettings == Init /\ [][SettingsNext]_vars

\* One administrator working alone.
SoloNext == VehicleStep("a1") \/ WorkOrderStep("a1") \/ RouteStep("a1")

SpecSolo == Init /\ [][SoloNext]_vars

\* One administrator working alone, over a backend whose requests can fail.
FaultNext == SoloNext \/ FaultStep("a1")

SpecFaults == Init /\ [][FaultNext]_vars

\* ------------------------------------------------------- the policy layer
\* Requests sent to the backend's data interface by any authenticated
\* principal, whatever the application's pages would let it do: the row-level
\* policies alone decide. lastRequest keeps who asked, whether is_admin held
\* of them when they asked, for what, and the ids of the rows a select
\* returned.
Request(uid, table, op) ==
    lastRequest' = [by |-> uid, admin |-> is_admin(uid), table |-> table, op |-> op,
                    returned |-> {}]

RequestVehicleInsert(uid, f) ==
    /\ Cardinality(DOMAIN vehicles) < MaxVehicles
    /\ vehicles' = VehiclesInsert(uid, NewVehicleRow(f))
    /\ Request(uid, "vehicles", "insert")
    /\ UNCHANGED <<profiles, vehicle_status_history, work_orders, page, vmVars, woVars, error, settingsVars, authVars, backupVars, updating>>

RequestVehicleUpdate(uid, id, f) ==
    /\ id \in DOMAIN vehicles
    /\ vehicles' = VehiclesUpdate(uid, id, VehicleData(f))
    /\ Request(uid, "vehicles", "update")
    /\ UNCHANGED <<profiles, vehicle_status_history, work_orders, page, vmVars, woVars, error, settingsVars, authVars, backupVars, updating>>

RequestVehicleDelete(uid, id) ==
    /\ id \in DOMAIN vehicles
    /\ vehicles' = VehiclesDelete(uid, id)
    /\ Request(uid, "vehicles", "delete")
    /\ UNCHANGED <<profiles, vehicle_status_history, work_orders, page, vmVars, woVars, error, settingsVars, authVars, backupVars, updating>>

RequestWorkOrderInsert(uid, vehicle_id) ==
    /\ Len(work_orders) < MaxWorkOrders
    /\ work_orders' = WorkOrdersInsert(uid,
          [vehicle_id |-> vehicle_id, created_by |-> uid,
           work_order_number |-> NewWorkOrderNumber(LastWorkOrderNumber)])
    /\ Request(uid, "work_orders", "insert")
    /\ UNCHANGED <<profiles, vehicles, vehicle_status_history, page, vmVars, woVars, error, settingsVars, authVars, backupVars, updating>>

RequestWorkOrderUpdate(uid, id, newStatus) ==
    /\ id \in DOMAIN work_orders
    /\ work_orders' = WorkOrdersUpdate(uid, id, UpdateStatusPatch(uid, newStatus, ""))
    /\ Request(uid, "work_orders", "update")
    /\ UNCHANGED <<profiles, vehicles, vehicle_status_history, page, vmVars, woVars, error, settingsVars, authVars, backupVars, updating>>

RequestProfileUpdate(uid, id, role) ==
    /\ profiles' = ProfilesUpdate(uid, id, role)
    /\ Request(uid, "profiles", "update")
    /\ UNCHANGED <<vehicles, vehicle_status_history, work_orders, page, vmVars, woVars, error, settingsVars, authVars, backupVars, updating>>

PolicyNext ==
    \E uid \in Principals :
        \/ \E f \in {g \in FormContents : FormValid(g)} : RequestVehicleInsert(uid, f)
        \/ \E id \in 1..MaxVehicles, f \in {g \in FormContents : FormValid(g)} :
                RequestVehicleUpdate(uid, id, f)
        \/ \E id \in 1..MaxVehicles : RequestVehicleDelete(uid, id)
        \/ \E id \in 1..MaxVehicles : RequestWorkOrderInsert(uid, id)
        \/ \E id \in 1..MaxWorkOrders, st \in WorkOrderStatuses \ {"pending"} :
                RequestWorkOrderUpdate(uid, id, st)
        \/ \E id \in Principals, role \in Roles : RequestProfileUpdate(uid, id, role)

SpecPolicy == Init /\ [][PolicyNext]_vars

\* Requests on the status history and on the profiles.
RequestHistoryInsert(uid, new_status) ==
    /\ Len(vehicle_status_history) < MaxHistory
    /\ vehicle_status_history' =
          HistoryInsert(uid, StatusHistoryEntry(uid, 1, new_status))
    /\ Request(uid, "vehicle_status_history", "insert")
    /\ UNCHANGED <<profiles, vehicles, work_orders, page, vmVars, woVars, error, settingsVars, authVars, backupVars, updating>>

RequestHistoryUpdate(uid, i, new_status) ==
    /\ i \in DOMAIN vehicle_status_history
    /\ vehicle_status_history' = HistoryUpdate(uid, i, new_status)
    /\ Request(uid, "vehicle_status_history", "update")
    /\ UNCHANGED <<profiles, vehicles, work_orders, page, vmVars, woVars, error, settingsVars, authVars, backupVars, updating>>

RequestHistoryDelete(uid, i) ==
    /\ i \in DOMAIN vehicle_status_history
    /\ vehicle_status_history' = HistoryDelete(uid, i)
    /\ Request(uid, "vehicle_status_history", "delete")
    /\ UNCHANGED <<profiles, vehicles, work_orders, page, vmVars, woVars, error, settingsVars, authVars, backupVars, updating>>

RequestProfileSelect(uid) ==
    /\ lastRequest' = [by |-> uid, admin |-> is_admin(uid), table |-> "profiles",
                       op |-> "select", returned |-> ProfilesSelect(uid)]
    /\ UNCHANGED <<dbVars, page, vmVars, woVars, error, settingsVars, authVars, backupVars, updating>>

AccessNext ==
    \E uid \in Principals :
        \/ \E st \in VehicleStatuses : RequestHistoryInsert(uid, st)
        \/ \E i \in 1..MaxHistory, st \in VehicleStatuses : RequestHistoryUpdate(uid, i, st)
        \/ \E i \in 1..MaxHistory : RequestHistoryDelete(uid, i)
        \/ RequestProfileSelect(uid)
        \/ \E id \in Principals, role \in Roles : RequestProfileUpdate(uid, id, role)

SpecAccess == Init /\ [][AccessNext]_vars

\* A row posted to work_orders with the columns the sender chooses: a status,
\* the resolution columns to go with it, and no work_order_number.
DirectRow(uid, status) ==
    [vehicle_id |-> 1, created_by |-> uid, work_order_number |-> NoNumber,
     status |-> status,
     resolved_at |-> IF status = "completed" THEN Now ELSE NULL,
     resolved_by |-> IF status = "completed" THEN uid ELSE NULL]

RequestWorkOrderInsertRow(uid, status) ==
    /\ DirectRow(uid, status).vehicle_id \in DOMAIN vehicles
    /\ Cardinality({i \in DOMAIN work_orders :
                       work_orders[i].work_order_number = NoNumber}) < MaxDirectRows
    /\ work_orders' = WorkOrdersInsert(uid, DirectRow(uid, status))
    /\ Request(uid, "work_orders", "insert")
    /\ UNCHANGED <<profiles, vehicles, vehicle_status_history, page, vmVars, woVars, error,
                   settingsVars, authVars, backupVars, updating>>

\* One administrator at work in the application while any principal sends
\* work-order rows and updates to the backend directly.
DirectNext ==
    \/ SoloNext
    \/ \E uid \in Principals, status \in WorkOrderStatuses :
            RequestWorkOrderInsertRow(uid, status)
    \/ \E uid \in Principals, id \in 1..MaxWorkOrders,
           status \in WorkOrderStatuses \ {"pending"} :
            RequestWorkOrderUpdate(uid, id, status)

SpecDirect == Init /\ [][DirectNext]_vars

\* Reads of the vehicles, the status history and the work orders: what
\* lastRequest keeps of a select.
Selected(uid, table, returned) ==
    [by |-> uid, admin |-> is_admin(uid), table |-> table, op |-> "select",
     returned |-> returned]

RequestVehicleSelect(uid) ==
    /\ lastRequest' = Selected(uid, "vehicles", VehiclesSelect(uid))
    /\ UNCHANGED <<dbVars, page, vmVars, woVars, error, settingsVars, authVars, backupVars, updating>>

RequestHistorySelect(uid) ==
    /\ lastRequest' = Selected(uid, "vehicle_status_history", HistorySelect(uid))
    /\ UNCHANGED <<dbVars, page, vmVars, woVars, error, settingsVars, authVars, backupVars, updating>>

RequestWorkOrderSelect(uid) ==
    /\ lastRequest' = Selected(uid, "work_orders", WorkOrdersSelect(uid))
    /\ UNCHANGED <<dbVars, page, vmVars, woVars, error, settingsVars, authVars, backupVars, updating>>

\* What the policies leave to every authenticated principal, over vehicles
\* that admins create.
OpenNext ==
    \E uid \in Principals :
        \/ \E f \in {g \in FormContents : FormValid(g)} : RequestVehicleInsert(uid, f)
        \/ \E st \in VehicleStatuses : RequestHistoryInsert(uid, st)
        \/ \E id \in 1..MaxVehicles : RequestWorkOrderInsert(uid, id)
        \/ RequestVehicleSelect(uid)
        \/ RequestHistorySelect(uid)
        \/ RequestWorkOrderSelect(uid)

SpecOpen == Init /\ [][OpenNext]_vars

\* ------------------------------------------------- auth store and router
Paths == Pages \cup {"login"}
Users == Principals \cup {NULL}

\* A router whose /settings asks for a session only.
RouteWithoutAdminRoute(store, path) ==
    IF path = "login" THEN "login"
    ELSE IF store.session = NULL THEN "login"
    ELSE path

\* What the router shows for a path: /login as it is; every other path under
\* PrivateRoute (<Navigate to="/login"> without a session); /settings under
\* AdminRoute as well (<Navigate to="/dashboard"> unless isAdmin).
Route(store, path) ==
    IF path = "login" THEN "login"
    ELSE IF store.session = NULL THEN "login"
    ELSE IF path = "settings" /\ ~store.isAdmin THEN "dashboard"
    ELSE path

\* setSession(session): set({ session }). The effect on [session] starts
\* fetchProfile when there is a session, and the routes are rendered again.
setSession(session) ==
    /\ session # authStore.session
    /\ authStore' = [authStore EXCEPT !.session = session]
    /\ fetching' = IF session # NULL THEN fetching \cup {session} ELSE fetching
    /\ location' = Route(authStore', location)
    /\ UNCHANGED <<dbVars, page, vmVars, woVars, lastRequest, error, settingsVars,
                   backupVars, updating>>

\* setProfile(profile): set({ profile, isAdmin: profile?.role === 'admin' }).
setProfile(store, profile) ==
    [store EXCEPT !.profile = profile, !.isAdmin = (profile.role = "admin")]

\* fetchProfile for user uid answers with the user's row: setProfile(profileData).
fetchProfileReturns(uid) ==
    /\ uid \in fetching
    /\ fetching' = fetching \ {uid}
    /\ authStore' = setProfile(authStore, [id |-> uid, role |-> profiles[uid]])
    /\ location' = Route(authStore', location)
    /\ UNCHANGED <<dbVars, page, vmVars, woVars, lastRequest, error, settingsVars,
                   backupVars, updating>>

\* fetchProfile for user uid fails: the catch logs to the console and the
\* store stays as it is.
fetchProfileFails(uid) ==
    /\ uid \in fetching
    /\ fetching' = fetching \ {uid}
    /\ UNCHANGED <<dbVars, page, vmVars, woVars, lastRequest, error, settingsVars,
                   authStore, location, backupVars, updating>>

\* The layout's sign-out button: signOut() of the store, then navigate('/login').
signOut ==
    /\ location # "login"
    /\ authStore' = EmptyStore
    /\ location' = "login"
    /\ UNCHANGED <<dbVars, page, vmVars, woVars, lastRequest, error, settingsVars,
                   fetching, backupVars, updating>>

\* A link or an address typed: the router is asked for a path.
navigate(path) ==
    /\ Route(authStore, path) # location
    /\ location' = Route(authStore, path)
    /\ UNCHANGED <<dbVars, page, vmVars, woVars, lastRequest, error, settingsVars,
                   authStore, fetching, backupVars, updating>>

AuthNext ==
    \/ \E session \in Users : setSession(session)
    \/ \E uid \in Principals : fetchProfileReturns(uid)
    \/ \E uid \in Principals : fetchProfileFails(uid)
    \/ signOut
    \/ \E path \in Paths : navigate(path)

SpecAuth == Init /\ [][AuthNext]_vars

\* ------------------------------------------------------------ backup script
\* backupAllTables.ts: one run of the script, a step per await and outcome.

MaxTables == 3
TableNames == {"profiles", "vehicles", "work_orders"}

\* The lists get_all_tables can answer with: table names without repetition.
TableLists ==
    {l \in UNION {[1..n -> TableNames] : n \in 0..MaxTables} :
        \A i, j \in DOMAIN l : i # j => l[i] # l[j]}

appVars == <<dbVars, page, vmVars, woVars, lastRequest, error, settingsVars,
             authVars, updating>>

\* getAllTables answers with no list and backupAllTables still makes the
\* directory.
getAllTablesFailsWithDir ==
    /\ bkPc = "start"
    /\ tables' = <<>>
    /\ backupDir' = TRUE
    /\ bkPc' = "done"
    /\ UNCHANGED <<attempted, csvFiles, zipFile, uploads, appVars>>

\* getAllTables: the rpc answers with an error and [] is returned;
\* backupAllTables returns at `tables.length === 0`.
getAllTablesFails ==
    /\ bkPc = "start"
    /\ tables' = <<>>
    /\ bkPc' = "done"
    /\ UNCHANGED <<attempted, backupDir, csvFiles, zipFile, uploads, appVars>>

\* getAllTables answers with a list; an empty one ends the run, any other
\* has the directory made and the loop entered.
getAllTablesReturns(list) ==
    /\ bkPc = "start"
    /\ tables' = list
    /\ IF Len(list) = 0
       THEN bkPc' = "done" /\ UNCHANGED backupDir
       ELSE bkPc' = "loop" /\ backupDir' = TRUE
    /\ UNCHANGED <<attempted, csvFiles, zipFile, uploads, appVars>>

\* The table the loop is at.
CurrentTable == tables[Len(attempted) + 1]

\* Where the run goes after one more table: the next one, or the archive,
\* which is started right after the loop.
AfterTable == IF Len(attempted) + 1 = Len(tables) THEN "zip" ELSE "loop"

\* select("*") answers with rows: they are parsed and written as <table>.csv.
fetchTableRows ==
    /\ bkPc = "loop"
    /\ attempted' = Append(attempted, CurrentTable)
    /\ csvFiles' = csvFiles \cup {CurrentTable}
    /\ bkPc' = AfterTable
    /\ UNCHANGED <<tables, backupDir, zipFile, uploads, appVars>>

\* select("*") answers with an error: continue.
fetchTableFails ==
    /\ bkPc = "loop"
    /\ attempted' = Append(attempted, CurrentTable)
    /\ bkPc' = AfterTable
    /\ UNCHANGED <<tables, backupDir, csvFiles, zipFile, uploads, appVars>>

\* select("*") answers with no rows: continue.
fetchTableEmpty ==
    /\ bkPc = "loop"
    /\ attempted' = Append(attempted, CurrentTable)
    /\ bkPc' = AfterTable
    /\ UNCHANGED <<tables, backupDir, csvFiles, zipFile, uploads, appVars>>

\* output 'close': the archive is written; getAccessToken is called.
zipCloses ==
    /\ bkPc = "zip"
    /\ zipFile' = TRUE
    /\ bkPc' = "token"
    /\ UNCHANGED <<tables, attempted, backupDir, csvFiles, uploads, appVars>>

\* archive 'error': the promise rejects and nothing catches it.
zipFails ==
    /\ bkPc = "zip"
    /\ bkPc' = "failed"
    /\ UNCHANGED <<tables, attempted, backupDir, csvFiles, zipFile, uploads, appVars>>

\* getAccessToken: the token endpoint answers; data.access_token is a token
\* or, when the answer is an error body, undefined. Either is passed on.
getAccessTokenReturns(granted) ==
    /\ bkPc = "token"
    /\ bkPc' = IF granted THEN "upload" ELSE "uploadNoToken"
    /\ UNCHANGED <<tables, attempted, backupDir, csvFiles, zipFile, uploads, appVars>>

\* getAccessToken: fetch or res.json() throws.
getAccessTokenFails ==
    /\ bkPc = "token"
    /\ bkPc' = "failed"
    /\ UNCHANGED <<tables, attempted, backupDir, csvFiles, zipFile, uploads, appVars>>

\* uploadToSharePoint: the put of the archive is accepted.
uploadToSharePointReturns ==
    /\ bkPc = "upload"
    /\ uploads' = uploads + 1
    /\ bkPc' = "done"
    /\ UNCHANGED <<tables, attempted, backupDir, csvFiles, zipFile, appVars>>

\* uploadToSharePoint: the put throws (always so without a token).
uploadToSharePointFails ==
    /\ bkPc \in {"upload", "uploadNoToken"}
    /\ bkPc' = "failed"
    /\ UNCHANGED <<tables, attempted, backupDir, csvFiles, zipFile, uploads, appVars>>

BackupNext ==
    \/ getAllTablesFails
    \/ \E list \in TableLists : getAllTablesReturns(list)
    \/ fetchTableRows
    \/ fetchTableFails
    \/ fetchTableEmpty
    \/ zipCloses
    \/ zipFails
    \/ \E granted \in BOOLEAN : getAccessTokenReturns(granted)
    \/ getAccessTokenFails
    \/ uploadToSharePointReturns
    \/ uploadToSharePointFails

SpecBackup == Init /\ [][BackupNext]_vars

Spec == Init /\ [][Next]_vars


\* --------------------------------------------------------------- properties
\* No handler of any session is between two awaits: every operation that was
\* started has completed.
AllIdle == \A s \in Sessions : SessionIdle(s)

\* The history rows of a vehicle, as their positions in creation order.
EntriesOf(id) ==
    {i \in DOMAIN vehicle_status_history : vehicle_status_history[i].vehicle_id = id}

\* C1: once every operation has completed, each vehicle's side fields match
\* its status: available has no officer and no location, assigned has an
\* officer and no location, out_of_service has a location and no officer.
C1_SideFieldsMatchStatus ==
    AllIdle =>
        \A id \in DOMAIN vehicles :
            LET v == vehicles[id]
            IN  /\ v.status = "available" =>
                      v.assigned_to = NULL /\ v.current_location = NULL
                /\ v.status = "assigned" =>
                      v.assigned_to # NULL /\ v.current_location = NULL
                /\ v.status = "out_of_service" =>
                      v.current_location # NULL /\ v.assigned_to = NULL

\* C2: once every operation has completed, the most recent history entry of
\* each vehicle that has one carries the vehicle's current status as its
\* new_status.
C2_LastEntryIsCurrentStatus ==
    AllIdle =>
        \A id \in DOMAIN vehicles :
            EntriesOf(id) # {} =>
                vehicle_status_history[Max(EntriesOf(id))].new_status
                    = vehicles[id].status

\* C3: the numbers of the work orders created through the form are unique and
\* strictly increasing in creation order.
C3_NumbersStrictlyIncreasing ==
    \A i, j \in DOMAIN work_orders :
        i < j => work_orders[i].work_order_number < work_orders[j].work_order_number

\* C4: creation is a read of the maximum followed, in a later step, by the
\* insert: the row a session inserts carries the number it read plus one,
\* whatever other sessions inserted after it read, so that two sessions that
\* read the same table both insert the same number.
C4_InsertUsesTheNumberRead ==
    [][\A s \in Sessions :
          (womPc[s].pc = "insert" /\ womPc'[s].pc = "idle") =>
              /\ Len(work_orders') = Len(work_orders) + 1
              /\ work_orders'[Len(work_orders')].work_order_number
                    = NewWorkOrderNumber(womPc[s].lastWorkOrderNumber)]_vars

\* Two sessions read the empty table and both inserted number 1.
C4_Witness ==
    /\ Len(work_orders) = 2
    /\ work_orders[1].work_order_number = 1
    /\ work_orders[2].work_order_number = 1
    /\ work_orders[1].created_by # work_orders[2].created_by
    /\ AllIdle

\* C5: a request of a principal that is not an administrator to create, update
\* or delete a vehicle, to update a work order or to update a profile leaves
\* the rows of that table unchanged.
C5_NonAdminWritesRejected ==
    [][~lastRequest'.admin =>
          /\ lastRequest'.table = "vehicles" => vehicles' = vehicles
          /\ (lastRequest'.table = "work_orders" /\ lastRequest'.op = "update") =>
                work_orders' = work_orders
          /\ (lastRequest'.table = "profiles" /\ lastRequest'.op = "update") =>
                profiles' = profiles]_vars

\* A principal that is not an administrator has asked to update a vehicle
\* that exists.
C5_Witness ==
    /\ lastRequest.by = "u1"
    /\ ~lastRequest.admin
    /\ lastRequest.table = "vehicles"
    /\ lastRequest.op = "update"
    /\ vehicles # <<>>

\* C6: once every operation has completed, resolved_at, resolved_by and
\* resolution_notes of a work order are all non-null if its status is
\* completed and all null if it is not.
C6_ResolutionFieldsIffCompleted ==
    AllIdle =>
        \A i \in DOMAIN work_orders :
            LET w == work_orders[i]
            IN  IF w.status = "completed"
                THEN w.resolved_at # NULL /\ w.resolved_by # NULL
                     /\ w.resolution_notes # NULL
                ELSE w.resolved_at = NULL /\ w.resolved_by = NULL
                     /\ w.resolution_notes = NULL

\* The status changes the lifecycle of a work order allows.
LifecycleSteps ==
    {<<"pending", "in_progress">>, <<"pending", "completed">>,
     <<"pending", "cancelled">>, <<"in_progress", "completed">>,
     <<"in_progress", "cancelled">>}

\* C7: every change of a work order's status is a step of the lifecycle:
\* from pending to in_progress, completed or cancelled, from in_progress to
\* completed or cancelled, and none from completed or cancelled.
C7_LifecycleStepsOnly ==
    [][\A i \in DOMAIN work_orders :
          work_orders'[i].status # work_orders[i].status =>
              <<work_orders[i].status, work_orders'[i].status>> \in LifecycleSteps]_vars

\* C8: a save through the edit form goes on to the status procedure, which
\* appends one history entry, exactly if the save changes the stored status.
C8_EntryIffStoredStatusChanges ==
    [][\A s \in Sessions, f \in FormContents :
          SubmitUpdate(s, f) =>
              LET id == selectedVehicle[s].id
              IN  id \in DOMAIN vehicles =>
                     ((vehicles'[id].status # vehicles[id].status)
                         <=> (vmPc'[s].pc = "rpc"))]_vars

\* C9: the history entry a change of status through the edit form appends
\* has the status stored before the operation as previous_status, the status
\* asked for as new_status and the acting user as changed_by.
C9_EntryRecordsTheTransition ==
    [][\A s \in Sessions :
          (SubmitRpc(s) /\ vmPc[s].before # NULL) =>
              LET e == vehicle_status_history'[Len(vehicle_status_history')]
              IN  /\ e.previous_status = vmPc[s].before
                  /\ e.new_status = vmPc[s].status
                  /\ e.changed_by = s]_vars

\* A session is creating vehicle id and has not yet called the status procedure.
BeingCreated(id) ==
    \E s \in Sessions :
        vmPc[s].pc = "rpc" /\ vmPc[s].vehicle_id = id /\ vmPc[s].before = NULL

\* C10: a vehicle whose creation has completed has exactly one history entry
\* with a null previous_status, and that entry is the first of the vehicle's
\* entries, whichever form created it.
C10_CreationWritesOneInitialEntry ==
    \A id \in DOMAIN vehicles :
        ~BeingCreated(id) =>
            /\ Cardinality({i \in EntriesOf(id) :
                   vehicle_status_history[i].previous_status = NULL}) = 1
            /\ \A i \in EntriesOf(id) :
                   vehicle_status_history[i].previous_status = NULL
                       => \A j \in EntriesOf(id) : i <= j

\* C11: when the status procedure fails after the edit form's update of the
\* row succeeded (the handler leaves its await with no history entry
\* appended), the vehicle keeps the status the form asked for, the history is
\* as it was and the modal reports the failure.
C11_FailedAppendKeepsNewStatus ==
    [][\A s \in Sessions :
          (/\ vmPc[s].pc = "rpc" /\ vmPc[s].before # NULL
           /\ vmPc'[s].pc = "idle"
           /\ vehicle_status_history' = vehicle_status_history) =>
              /\ vmPc[s].vehicle_id \in DOMAIN vehicles'
              /\ vehicles'[vmPc[s].vehicle_id].status = vmPc[s].status
              /\ error'[s].VehicleModal = SaveVehicleError]_vars

\* The edit form, opened on an available vehicle that has no history entry,
\* shows the failure of a save; the vehicle is assigned and still has no entry.
C11_Witness ==
    /\ AllIdle
    /\ isModalOpen["a1"]
    /\ selectedVehicle["a1"] = [id |-> 1, status |-> "available"]
    /\ 1 \in DOMAIN vehicles
    /\ vehicles[1].status = "assigned"
    /\ EntriesOf(1) = {}
    /\ error["a1"].VehicleModal = SaveVehicleError

\* C12: when handleCompleteWorkOrder ends with both of its writes done and no
\* error, the work order is completed with resolved_at set and resolved_by
\* the acting principal, and its vehicle is available.
C12_CompleteAndFree ==
    [][\A s \in Sessions :
          (/\ cwPc[s].pc = "vehicle" /\ cwPc'[s].pc = "idle"
           /\ error'[s].WorkOrders = NULL) =>
              /\ work_orders'[cwPc[s].id].status = "completed"
              /\ work_orders'[cwPc[s].id].resolved_at # NULL
              /\ work_orders'[cwPc[s].id].resolved_by = s
              /\ cwPc[s].vehicle_id \in DOMAIN vehicles'
              /\ vehicles'[cwPc[s].vehicle_id].status = "available"]_vars

\* The completion of a work order has freed an out-of-service vehicle: the
\* order is completed by a1, the vehicle is available and still carries the
\* location it was out of service at.
C12_Witness ==
    /\ AllIdle
    /\ error["a1"].WorkOrders = NULL
    /\ \E i \in DOMAIN work_orders :
          /\ work_orders[i].status = "completed"
          /\ work_orders[i].resolved_by = "a1"
          /\ work_orders[i].vehicle_id \in DOMAIN vehicles
          /\ vehicles[work_orders[i].vehicle_id].status = "available"
          /\ vehicles[work_orders[i].vehicle_id].current_location # NULL

\* C13: handleCompleteWorkOrder is two writes. If it ends with the vehicle not
\* available (the update of the vehicle failed), the work order is completed
\* all the same, the vehicle row is as it was and the page reports the error.
\* If the page reports an error with no update of a vehicle pending (the
\* update of the work order failed), neither the work order nor the vehicle
\* was written and no update of the vehicle follows.
C13_NotAtomic ==
    [][\A s \in Sessions :
          /\ (/\ cwPc[s].pc = "vehicle" /\ cwPc'[s].pc = "idle"
              /\ cwPc[s].vehicle_id \in DOMAIN vehicles'
              /\ vehicles'[cwPc[s].vehicle_id].status # "available") =>
                 /\ work_orders'[cwPc[s].id].status = "completed"
                 /\ vehicles' = vehicles
                 /\ error'[s].WorkOrders = CompleteWorkOrderError
          /\ (/\ cwPc[s].pc = "idle"
              /\ error[s].WorkOrders = NULL /\ error'[s].WorkOrders # NULL) =>
                 /\ cwPc'[s].pc = "idle"
                 /\ vehicles' = vehicles
                 /\ work_orders' = work_orders]_vars

\* The only work order is completed, its vehicle is still out of service and
\* the page shows the error of the completion.
C13_Witness ==
    /\ AllIdle
    /\ Len(work_orders) = 1
    /\ work_orders[1].status = "completed"
    /\ work_orders[1].resolved_by = "a1"
    /\ work_orders[1].vehicle_id \in DOMAIN vehicles
    /\ vehicles[work_orders[1].vehicle_id].status = "out_of_service"
    /\ error["a1"].WorkOrders = CompleteWorkOrderError

\* C14: handleUpdateStatus(newStatus) leaves the work order, when newStatus
\* is completed, with resolved_at set, resolved_by the acting principal and
\* resolution_notes the notes entered; when newStatus is in_progress or
\* cancelled, with resolved_at, resolved_by and resolution_notes all null,
\* whatever notes were entered.
C14_UpdateStatusFields ==
    [][\A s \in Sessions, newStatus \in {"in_progress", "completed", "cancelled"} :
          handleUpdateStatus(s, newStatus) =>
              LET w == work_orders'[selectedWorkOrder[s]]
              IN  IF newStatus = "completed"
                  THEN /\ w.resolved_at # NULL
                       /\ w.resolved_by = s
                       /\ w.resolution_notes =
                             (IF updateNotes[s] = "" THEN NULL ELSE updateNotes[s])
                  ELSE /\ w.resolved_at = NULL
                       /\ w.resolved_by = NULL
                       /\ w.resolution_notes = NULL]_vars

\* C15: the row one session's WorkOrderModal inserts carries the largest
\* work_order_number of the table as it is at the insert plus one, 1 if the
\* table is empty, and has status pending.
C15_NextNumberAndPending ==
    [][\A s \in Sessions :
          (womPc[s].pc = "insert" /\ Len(work_orders') = Len(work_orders) + 1) =>
              LET w == work_orders'[Len(work_orders')]
                  numbers == {work_orders[i].work_order_number : i \in DOMAIN work_orders}
              IN  /\ w.work_order_number = IF numbers = {} THEN 1 ELSE Max(numbers) + 1
                  /\ w.status = "pending"]_vars

\* The form has created two work orders, numbered 1 and 2, both pending.
C15_Witness ==
    /\ Len(work_orders) = 2
    /\ work_orders[1].work_order_number = 1
    /\ work_orders[2].work_order_number = 2
    /\ work_orders[1].status = "pending"
    /\ work_orders[2].status = "pending"
    /\ AllIdle

\* The target status is assigned with no assignee, or out_of_service with no
\* location.
MissingSideField(f) ==
    \/ f.status = "assigned" /\ f.assigned_to = ""
    \/ f.status = "out_of_service" /\ f.current_location = ""

\* C16: a submit of the vehicle form with status assigned and no officer, or
\* with status out_of_service and no location, is stopped before handleSubmit
\* runs: no step writes a row from such a form, and the step that stops it
\* leaves the vehicles, the history and the handler as they were.
C16_InvalidFormNeverWritten ==
    [][\A s \in Sessions :
          /\ \A f \in FormContents :
                MissingSideField(f) => ~(SubmitUpdate(s, f) \/ SubmitInsert(s, f))
          /\ (error'[s].validation /\ ~error[s].validation) =>
                /\ vehicles' = vehicles
                /\ vehicle_status_history' = vehicle_status_history
                /\ vmPc' = vmPc]_vars

\* The edit form is open on an available vehicle and the browser shows its
\* validation message: the vehicle is still available and no save is running.
C16_Witness ==
    /\ error["a1"].validation
    /\ isModalOpen["a1"]
    /\ selectedVehicle["a1"] = [id |-> 1, status |-> "available"]
    /\ 1 \in DOMAIN vehicles
    /\ vehicles[1] = [unit_number |-> NewUnitNumber, status |-> "available",
                      assigned_to |-> NULL, current_location |-> NULL]
    /\ AllIdle


\* C17: a vehicle's unit number, make, model and year never change after the
\* vehicle is created: no step of the application (the vehicle modal, the
\* fleet tab of the Settings page) changes the descriptive columns of a row
\* that exists.
C17_DescriptiveColumnsFrozen ==
    [][\A id \in DOMAIN vehicles \cap DOMAIN vehicles' :
          vehicles'[id].unit_number = vehicles[id].unit_number]_vars


\* C19: at most one work-order-settings row exists, whatever the admin
\* sessions fetch and save, two sessions that both opened the settings before
\* either saved included.
C19_AtMostOneSettingsRow == Len(work_order_settings) <= 1


\* C18: status-history entries are append-only: no request of any principal,
\* admin or not, updates or deletes an entry; every step leaves the entries
\* there are as they were and in place, and can only add entries after them.
C18_HistoryAppendOnly ==
    [][/\ Len(vehicle_status_history') >= Len(vehicle_status_history)
       /\ \A i \in 1..Len(vehicle_status_history) :
             vehicle_status_history'[i] = vehicle_status_history[i]]_vars

\* An admin asked to delete an entry of a full history, and the entries are
\* still there.
C18_Witness ==
    /\ lastRequest.table = "vehicle_status_history"
    /\ lastRequest.op = "delete"
    /\ lastRequest.admin
    /\ Len(vehicle_status_history) = MaxHistory


\* C20: a principal reads a profile row if and only if the row is its own or
\* the principal is an admin, and updates a profile row if and only if it is
\* an admin: a select of the profiles returns exactly the asker's row, or all
\* rows to an admin, and an update request changes the row exactly when an
\* admin sent it.
C20_ProfileAccessRules ==
    [][/\ (lastRequest'.table = "profiles" /\ lastRequest'.op = "select") =>
            \A id \in Principals :
                id \in lastRequest'.returned <=>
                    (id = lastRequest'.by \/ profiles[lastRequest'.by] = "admin")
       /\ \A uid \in Principals, id \in Principals, role \in Roles :
            RequestProfileUpdate(uid, id, role) =>
                profiles' = IF profiles[uid] = "admin"
                            THEN [profiles EXCEPT ![id] = role] ELSE profiles]_vars

\* An admin has just read the profiles and got every row, after the one user
\* was made an admin by an update.
C20_Witness ==
    /\ lastRequest.table = "profiles"
    /\ lastRequest.op = "select"
    /\ lastRequest.by = "a1"
    /\ lastRequest.returned = Principals
    /\ profiles["u1"] = "admin"


\* C21: every authenticated principal, admin or not, reads the vehicles, the
\* status history and the work orders, and inserts status-history rows and
\* work-order rows: a select of one of the three tables returns every row of
\* it to whoever asks, and an insert into the history or the work orders adds
\* the asker's row.
C21_OpenToEveryPrincipal ==
    [][/\ lastRequest'.op = "select" =>
            /\ lastRequest'.table = "vehicles" => lastRequest'.returned = DOMAIN vehicles
            /\ lastRequest'.table = "vehicle_status_history" =>
                  lastRequest'.returned = DOMAIN vehicle_status_history
            /\ lastRequest'.table = "work_orders" =>
                  lastRequest'.returned = DOMAIN work_orders
       /\ (lastRequest'.op = "insert" /\ lastRequest'.table = "vehicle_status_history") =>
            /\ Len(vehicle_status_history') = Len(vehicle_status_history) + 1
            /\ vehicle_status_history'[Len(vehicle_status_history')].changed_by =
                  lastRequest'.by
       /\ (lastRequest'.op = "insert" /\ lastRequest'.table = "work_orders") =>
            /\ Len(work_orders') = Len(work_orders) + 1
            /\ work_orders'[Len(work_orders')].created_by = lastRequest'.by]_vars

\* The one principal that is no admin has just read all the work orders, one
\* of which it created, and the history holds an entry it inserted.
C21_Witness ==
    /\ lastRequest.by = "u1"
    /\ ~lastRequest.admin
    /\ lastRequest.table = "work_orders"
    /\ lastRequest.op = "select"
    /\ lastRequest.returned = 1..MaxWorkOrders
    /\ \E id \in DOMAIN work_orders : work_orders[id].created_by = "u1"
    /\ \E i \in DOMAIN vehicle_status_history : vehicle_status_history[i].changed_by = "u1"
    /\ DOMAIN vehicles # {}


\* C22: the status machine of a vehicle is fully connected and has no terminal
\* state: whenever an admin has the vehicle form open on a vehicle, each of
\* the two statuses the vehicle does not have can be saved from the form, and
\* the save leaves the vehicle in that status.
C22_EveryOtherStatusCanBeSaved ==
    \A s \in Sessions :
        (FormUsable(s) /\ isAdmin(s) /\ selectedVehicle[s].id \in DOMAIN vehicles
            /\ HistoryRoom) =>
            \A st \in VehicleStatuses \ {vehicles[selectedVehicle[s].id].status} :
                ENABLED (\E f \in FormContents :
                            /\ f.status = st
                            /\ SubmitUpdate(s, f)
                            /\ vehicles'[selectedVehicle[s].id].status = st)

\* The form is open on a vehicle that a save has made assigned, with room for
\* one more change.
C22_Witness ==
    /\ FormUsable("a1")
    /\ selectedVehicle["a1"] = [id |-> 1, status |-> "assigned"]
    /\ vehicles[1].status = "assigned"
    /\ HistoryRoom
    /\ \E i \in DOMAIN vehicle_status_history :
          vehicle_status_history[i].new_status = "assigned"


\* C23: the settings route is admin-only: the router shows the settings page
\* only while the store has a session and its isAdmin is true, and asked for
\* /settings otherwise it shows the login page when there is no session and
\* the dashboard when there is one without isAdmin.
C23_SettingsRouteAdminOnly ==
    [][/\ location' = "settings" => (authStore'.session # NULL /\ authStore'.isAdmin)
       /\ navigate("settings") =>
            location' = IF authStore.session = NULL THEN "login"
                        ELSE IF ~authStore.isAdmin THEN "dashboard"
                        ELSE "settings"]_vars

\* An admin is signed in, its profile is fetched, and the settings page is
\* shown.
C23_Witness ==
    /\ authStore.session = "a1"
    /\ authStore.profile = [id |-> "a1", role |-> "admin"]
    /\ authStore.isAdmin
    /\ location = "settings"


\* C28: in every reachable state of the auth store isAdmin is true only if
\* there is a session and the stored profile is the profile of the session's
\* user, with role admin; and signOut leaves the store with no session, no
\* profile and isAdmin false.
C28_IsAdminMeansAdminSession ==
    /\ [](authStore.isAdmin =>
            /\ authStore.session # NULL
            /\ authStore.profile.id = authStore.session
            /\ authStore.profile.role = "admin")
    /\ [][signOut => authStore' = EmptyStore]_vars


\* C24: every failing operation is caught where it was started and sets a
\* message the user sees; none fails silently: after a failed save of a
\* vehicle the vehicle modal shows an error, after a failed creation of a work
\* order the work-order modal does, and after a failed completion or a failed
\* status update of a work order the Work Orders page does.
C24_EveryFailureShowsAMessage ==
    [][\A s \in Sessions :
          /\ ((\E f \in FormContents : SubmitWriteFails(s, f)) \/ SubmitRpcFails(s)) =>
                error'[s].VehicleModal # NULL
          /\ (WomReadFails(s) \/ WomInsertFails(s)) => error'[s].WorkOrderModal # NULL
          /\ ((\E id \in 1..MaxWorkOrders : CompleteWorkOrderFails(s, id))
                \/ CompleteVehicleFails(s)) => error'[s].WorkOrders # NULL
          /\ handleUpdateStatusFails(s) => error'[s].WorkOrders # NULL]_vars


\* C25: after every successful save in the vehicle modal, if the saved status
\* is out_of_service the prompt for a work order is displayed, for a status
\* change and for a new vehicle alike, and otherwise the vehicle modal is
\* closed; closing the prompt closes the vehicle modal. No successful save
\* leaves the vehicle modal open with no prompt.
C25_SaveClosesOrPrompts ==
    [][\A s \in Sessions :
          /\ SubmitRpc(s) =>
                IF vmPc[s].status = "out_of_service"
                THEN PromptVisible(s)' ELSE ~isModalOpen'[s]
          /\ \A f \in FormContents :
                (SubmitUpdate(s, f) /\ ~StatusHasChanged(selectedVehicle[s], f)) =>
                    IF f.status = "out_of_service"
                    THEN PromptVisible(s)' ELSE ~isModalOpen'[s]
          /\ WomClose(s) => ~isModalOpen'[s]]_vars


\* C26: Save updates the row of the id the session knows and inserts when it
\* knows none; the session takes the id of the row its first save inserted, so
\* no later Save of that session inserts a second row; and Get leaves the
\* settings the page holds in place when the table has no row.
C26_SaveUpdatesOrInsertsOnce ==
    [][\A s \in Sessions :
          /\ handleSaveWorkOrderSettings(s) =>
                IF workOrderSettings[s].id # 0
                THEN /\ Len(work_order_settings') = Len(work_order_settings)
                     /\ work_order_settings'[workOrderSettings[s].id] =
                           workOrderSettings[s].default_priority
                ELSE /\ Len(work_order_settings') = Len(work_order_settings) + 1
                     /\ wosPc[s].inserted = {}
          /\ \A id \in 1..MaxSettingsRows :
                saveWorkOrderSettingsReturns(s, id) => workOrderSettings'[s].id = id
          /\ (fetchWorkOrderSettings(s) /\ work_order_settings = <<>>) =>
                workOrderSettings'[s] = workOrderSettings[s]]_vars


\* C27: the number given to a new work order is strictly greater than every
\* work_order_number there is that is not null, also when some work orders
\* have a null work_order_number.
C27_NewNumberAboveAllNumbers ==
    [][\A s \in Sessions :
          WomInsert(s) =>
              \A i \in DOMAIN work_orders :
                  work_orders[i].work_order_number # NoNumber =>
                      work_orders'[Len(work_orders')].work_order_number >
                          work_orders[i].work_order_number]_vars


\* C29: a work order is completed, or has a resolution field set, only as the
\* result of a write by an admin: no write a non-admin principal sends, a
\* direct insert of a work-order row included, leaves a work order completed
\* or resolved that was not so before.
C29_OnlyAdminsCompleteOrResolve ==
    [][\A uid \in Principals \ {p \in Principals : is_admin(p)} :
          (\/ \E status \in WorkOrderStatuses : RequestWorkOrderInsertRow(uid, status)
           \/ \E id \in 1..MaxWorkOrders, status \in WorkOrderStatuses :
                  RequestWorkOrderUpdate(uid, id, status))
          => \A i \in DOMAIN work_orders' :
                 (\/ work_orders'[i].status = "completed"
                  \/ work_orders'[i].resolved_at # NULL
                  \/ work_orders'[i].resolved_by # NULL
                  \/ work_orders'[i].resolution_notes # NULL)
                 => /\ i \in DOMAIN work_orders
                    /\ work_orders[i] = work_orders'[i]]_vars


\* The ordering of a backup run that does not depend on how the run ends.
BackupOrdering ==
    \* no table list: no directory, no file, no archive, no upload
    /\ Len(tables) = 0 => ~backupDir /\ csvFiles = {} /\ ~zipFile /\ uploads = 0
    \* the tables are attempted in the order of the list
    /\ Len(attempted) <= Len(tables)
    /\ \A i \in DOMAIN attempted : attempted[i] = tables[i]
    /\ csvFiles \subseteq {attempted[i] : i \in DOMAIN attempted}
    \* the archive is started only when every table was attempted
    /\ bkPc \in {"zip", "token", "upload", "uploadNoToken"} \/ zipFile
           => attempted = tables
    \* an upload happens only after the archive is complete, and once at most
    /\ uploads > 0 => zipFile
    /\ uploads <= 1

\* A table whose fetch fails or that is empty is skipped and the run goes on.
BackupSkipGoesOn ==
    fetchTableFails \/ fetchTableEmpty
        => bkPc' \in {"loop", "zip"} /\ csvFiles' = csvFiles

\* C30 as stated: the ordering of a backup run, and exactly one upload in
\* every run that had a table list, however the run ends.
C30_ExactlyOneUpload ==
    /\ [](/\ BackupOrdering
          /\ (bkPc \in {"done", "failed"} /\ Len(tables) > 0 => uploads = 1))
    /\ [][BackupSkipGoesOn]_vars

\* C30 amended: with no table list nothing is produced; otherwise every
\* table is attempted in turn, a failing or empty one skipped without
\* aborting, the archive is made only after all tables, at most one upload
\* happens and only after the archive is complete; a run that ends without
\* an exception has uploaded exactly once, and a run in which the archive,
\* the token request or the upload throws has uploaded nothing.
C30_BackupRunOrdering ==
    /\ [](/\ BackupOrdering
          /\ (bkPc = "done" /\ Len(tables) > 0 => uploads = 1)
          /\ (bkPc = "failed" => uploads = 0))
    /\ [][BackupSkipGoesOn]_vars

\* A run over several tables, of which one was skipped and one written, has
\* ended with its one upload.
C30_Witness ==
    /\ bkPc = "done"
    /\ Len(tables) >= 2
    /\ attempted = tables
    /\ csvFiles # {}
    /\ csvFiles # {tables[i] : i \in DOMAIN tables}
    /\ zipFile
    /\ uploads = 1

====
